---- MODULE Spec2Model ----
(***************************************************************************)
(* Model of the Qdb execution-control core, qiling/debugger/qdb/qdb.py:    *)
(* the breakpoint table, single stepping, reverse stepping over saved      *)
(* states, run/continue, and the line dispatcher of class QlQdb.           *)
(*                                                                         *)
(* The emulator (ql.emu_start, ql.hook_address, ql.save, ql.restore), the  *)
(* step resolver handle_bnj and the integer parser parse_int live outside  *)
(* qdb.py; they are modelled from their contract in the specification.     *)
(* The emulated program is a small fixed loop over 4-byte instructions.    *)
(***************************************************************************)
EXTENDS Integers, Sequences, FiniteSets, TLC

VARIABLES
    rr,               \* self.rr: reverse mode, fixed at construction
    archtype,         \* self.ql.archtype
    thumb,            \* is_thumb(self.ql.reg.cpsr)
    arch_pc,          \* self.ql.reg.arch_pc, read and written as cur_addr
    r0,               \* the emulated program's one general register
    delay,            \* MIPS: target of a taken branch whose delay slot is pending
    hooks,            \* handles of the address hooks installed in the engine
    next_hook,        \* number of Breakpoint objects constructed so far
    heap,             \* the Breakpoint objects: handle -> [addr, temp, hitted]
    bp_list,          \* self.bp_list: a dict, as a set of [key, bp] items
    _states_list,     \* self._states_list
    state,            \* Stopped | Running | Ended | Idle | Crashed
    run,              \* the engine's active emu_start call, or NoRun
    lastcmd,          \* cmd.Cmd.lastcmd: the last non-empty line
    log,              \* what the current command has printed and asked of the engine
    nfwd,             \* forward steps executed since the session started
    nback,            \* reverse steps that restored since the session started
    scen              \* the run of consecutive steps and reverse steps in progress

vars == <<rr, archtype, thumb, arch_pc, r0, delay, hooks, next_hook, heap, bp_list,
          _states_list, state, run, lastcmd, log, nfwd, nback, scen>>

----------------------------------------------------------------------------
(* Bounds of the model *)

RegMod == 2
MaxHooks == 2
MaxSteps == 2

(* The emulated program *)

entry_point == 4096
InstSize == 4
LastAddr == entry_point + 5 * InstSize
CodeAddrs == {entry_point + i * InstSize : i \in 0..5}

None == "None"
CODE_END == -1
ParseError == -1

\* The instruction at a mapped address.
\*   entry+0   inc   r0 := r0 + 1 (mod RegMod)
\*   entry+4   bnez  branch to entry+0 while r0 # 0
\*   entry+8   nop
\*   entry+12  b     branch to entry+16, always taken
\*   entry+16  nop
\*   entry+20  exit  the program exits; the last mapped instruction
Insn(a) ==
    CASE a = entry_point                 -> [op |-> "inc",  target |-> 0]
      [] a = entry_point + InstSize      -> [op |-> "bnez", target |-> entry_point]
      [] a = entry_point + 3 * InstSize  -> [op |-> "b",    target |-> entry_point + 4 * InstSize]
      [] a = LastAddr                    -> [op |-> "exit", target |-> 0]
      [] OTHER                           -> [op |-> "nop",  target |-> 0]

IsBranch(a) == Insn(a).op \in {"bnez", "b"}

Taken(a, reg) ==
    \/ Insn(a).op = "b"
    \/ Insn(a).op = "bnez" /\ reg # 0

----------------------------------------------------------------------------
(* parse_int: Python's int(s, 0) over the characters of the argument *)

Digits == <<"0", "1", "2", "3", "4", "5", "6", "7", "8", "9",
            "a", "b", "c", "d", "e", "f">>

DigitVal(c, base) ==
    LET hit == {i \in 1..base : Digits[i] = c}
    IN  IF hit = {} THEN -1 ELSE (CHOOSE i \in hit : TRUE) - 1

RECURSIVE ParseDigits(_, _, _)
ParseDigits(s, base, acc) ==
    IF s = <<>> THEN acc
    ELSE LET d == DigitVal(Head(s), base)
         IN  IF d < 0 THEN -1 ELSE ParseDigits(Tail(s), base, acc * base + d)

parse_int(s) ==
    LET v == IF Len(s) >= 2 /\ s[1] = "0" /\ s[2] = "x"
                THEN IF Len(s) = 2 THEN -1 ELSE ParseDigits(SubSeq(s, 3, Len(s)), 16, 0)
             ELSE IF s = <<>> THEN -1
             ELSE LET d == ParseDigits(s, 10, 0)
                  IN  IF Len(s) > 1 /\ s[1] = "0" /\ d # 0 THEN -1 ELSE d
    IN  IF v < 0 THEN ParseError ELSE v

----------------------------------------------------------------------------
(* State *)

NoBp == [addr |-> 0, temp |-> FALSE, hitted |-> FALSE, made |-> FALSE]
NoRun == [count |-> 0, executed |-> 0, pending |-> {}, halted |-> FALSE,
          exited |-> FALSE, caller |-> None]
NoScen == [ok |-> FALSE, pre |-> <<>>, backs |-> 0]

Line(verb, arg) == [cmd |-> verb, arg |-> arg]
Ev(e, a, n) == [ev |-> e, a |-> a, n |-> n]

cur_addr == arch_pc

\* ql.save(): the machine state, not the debugger's tables
ql_save == [pc |-> arch_pc, r0 |-> r0]

config == <<rr, archtype, thumb>>
machine == <<arch_pc, r0, delay>>
bpvars == <<hooks, next_hook, heap, bp_list>>
ghost == <<nfwd, nback, scen>>

Init ==
    /\ rr \in BOOLEAN
    /\ archtype \in {"ARM", "MIPS"}
    /\ thumb \in (IF archtype = "ARM" THEN BOOLEAN ELSE {FALSE})
    /\ arch_pc = entry_point
    /\ r0 = 0
    /\ delay = 0
    /\ hooks = {}
    /\ next_hook = 0
    /\ heap = [h \in 1..MaxHooks |-> NoBp]
    /\ bp_list = {}
    /\ _states_list = <<>>
    /\ state = "Stopped"
    /\ run = NoRun
    /\ lastcmd = Line("", <<>>)
    /\ log = <<Ev("context", entry_point, 0)>>
    /\ nfwd = 0
    /\ nback = 0
    /\ scen = NoScen

----------------------------------------------------------------------------
(* self.bp_list is a dict: a set of [key, bp] items *)

dict_has(d, k) == \E e \in d : e.key = k

\* d.get(k, None); 0 stands for None (handles start at 1)
dict_get(d, k) == IF dict_has(d, k) THEN (CHOOSE e \in d : e.key = k).bp ELSE 0

\* d.update({k: v})
dict_update(d, k, v) == {e \in d : e.key # k} \cup {[key |-> k, bp |-> v]}

\* d.pop(k, None): the dict that is left
dict_pop(d, k) == {e \in d : e.key # k}

\* do_context: context_reg and context_asm at the current address
do_context(lg, a) == Append(lg, Ev("context", a, 0))

\* set_breakpoint with the item added beside the one already at the address
set_breakpoint_append(address, is_temp) ==
    LET bp == next_hook + 1
    IN  /\ next_hook < MaxHooks
        /\ next_hook' = bp
        /\ heap' = [heap EXCEPT ![bp] = [addr |-> address, temp |-> is_temp,
                                         hitted |-> FALSE, made |-> TRUE]]
        /\ hooks' = hooks \cup {bp}
        /\ bp_list' = bp_list \cup {[key |-> address, bp |-> bp]}

\* set_breakpoint removing the hook of the breakpoint it replaces
set_breakpoint_release_old(address, is_temp) ==
    LET bp == next_hook + 1
    IN  /\ next_hook < MaxHooks
        /\ next_hook' = bp
        /\ heap' = [heap EXCEPT ![bp] = [addr |-> address, temp |-> is_temp,
                                         hitted |-> FALSE, made |-> TRUE]]
        /\ hooks' = (hooks \ {dict_get(bp_list, address)}) \cup {bp}
        /\ bp_list' = dict_update(bp_list, address, bp)

\* set_breakpoint(address, is_temp): a new Breakpoint object, a new engine hook
\* bound to _bp_handler, and the dict item for the address replaced.
set_breakpoint(address, is_temp) ==
    LET bp == next_hook + 1
    IN  /\ next_hook < MaxHooks
        /\ next_hook' = bp
        /\ heap' = [heap EXCEPT ![bp] = [addr |-> address, temp |-> is_temp,
                                         hitted |-> FALSE, made |-> TRUE]]
        /\ hooks' = hooks \cup {bp}
        /\ bp_list' = dict_update(bp_list, address, bp)

\* del_breakpoint with bp.hook.remove() outside the if
del_breakpoint_always_remove(bp, lg) ==
    [bp_list |-> dict_pop(bp_list, heap[bp].addr),
     hooks   |-> hooks \ {bp},
     log     |-> Append(lg, Ev("hook_remove", heap[bp].addr, bp))]

\* del_breakpoint looking the item up with get instead of pop
del_breakpoint_get(bp, lg) ==
    IF dict_get(bp_list, heap[bp].addr) # 0
    THEN [bp_list |-> bp_list,
          hooks   |-> hooks \ {bp},
          log     |-> Append(lg, Ev("hook_remove", heap[bp].addr, bp))]
    ELSE [bp_list |-> bp_list, hooks |-> hooks, log |-> lg]

\* del_breakpoint(bp): pop the item at bp.addr; when one was there, remove bp's hook.
del_breakpoint(bp, lg) ==
    IF dict_get(bp_list, heap[bp].addr) # 0
    THEN [bp_list |-> dict_pop(bp_list, heap[bp].addr),
          hooks   |-> hooks \ {bp},
          log     |-> Append(lg, Ev("hook_remove", heap[bp].addr, bp))]
    ELSE [bp_list |-> bp_list, hooks |-> hooks, log |-> lg]

\* _bp_handler without the print of the hit notification
_bp_handler_silent(lg) ==
    LET bp == dict_get(bp_list, cur_addr)
        same == [heap |-> heap, bp_list |-> bp_list, hooks |-> hooks, log |-> lg]
    IN  IF bp = 0 THEN same
        ELSE IF heap[bp].temp
             THEN LET d == del_breakpoint(bp, lg)
                  IN  [heap |-> heap, bp_list |-> d.bp_list, hooks |-> d.hooks,
                       log |-> do_context(d.log, cur_addr)]
        ELSE IF heap[bp].hitted THEN same
        ELSE [heap    |-> [heap EXCEPT ![bp].hitted = TRUE],
              bp_list |-> bp_list,
              hooks   |-> hooks,
              log     |-> do_context(lg, cur_addr)]

\* _bp_handler without the early return on bp.hitted
_bp_handler_nocheck(lg) ==
    LET bp == dict_get(bp_list, cur_addr)
        same == [heap |-> heap, bp_list |-> bp_list, hooks |-> hooks, log |-> lg]
    IN  IF bp = 0 THEN same
        ELSE IF heap[bp].temp
             THEN LET d == del_breakpoint(bp, lg)
                  IN  [heap |-> heap, bp_list |-> d.bp_list, hooks |-> d.hooks,
                       log |-> do_context(d.log, cur_addr)]
        ELSE [heap    |-> [heap EXCEPT ![bp].hitted = TRUE],
              bp_list |-> bp_list,
              hooks   |-> hooks,
              log     |-> do_context(Append(lg, Ev("hit", cur_addr, 0)), cur_addr)]

\* _bp_handler reporting context before it deletes a TempBreakpoint
_bp_handler_late_del(lg) ==
    LET bp == dict_get(bp_list, cur_addr)
        same == [heap |-> heap, bp_list |-> bp_list, hooks |-> hooks, log |-> lg]
    IN  IF bp = 0 THEN same
        ELSE IF heap[bp].temp
             THEN LET d == del_breakpoint(bp, do_context(lg, cur_addr))
                  IN  [heap |-> heap, bp_list |-> d.bp_list, hooks |-> d.hooks,
                       log |-> d.log]
        ELSE IF heap[bp].hitted THEN same
        ELSE [heap    |-> [heap EXCEPT ![bp].hitted = TRUE],
              bp_list |-> bp_list,
              hooks   |-> hooks,
              log     |-> do_context(Append(lg, Ev("hit", cur_addr, 0)), cur_addr)]

\* _bp_handler resuming the program itself after it reports a hit: a call of
\* _run from inside the engine's run
_bp_handler_resume(lg) ==
    LET bp == dict_get(bp_list, cur_addr)
        same == [heap |-> heap, bp_list |-> bp_list, hooks |-> hooks, log |-> lg]
    IN  IF bp = 0 THEN same
        ELSE IF heap[bp].temp
             THEN LET d == del_breakpoint(bp, lg)
                  IN  [heap |-> heap, bp_list |-> d.bp_list, hooks |-> d.hooks,
                       log |-> do_context(d.log, cur_addr)]
        ELSE IF heap[bp].hitted THEN same
        ELSE [heap    |-> [heap EXCEPT ![bp].hitted = TRUE],
              bp_list |-> bp_list,
              hooks   |-> hooks,
              log     |-> Append(do_context(Append(lg, Ev("hit", cur_addr, 0)), cur_addr),
                                 Ev("emu_start", cur_addr, 0))]

\* _bp_handler without the isinstance test: every breakpoint is deleted when it fires
_bp_handler_del_any(lg) ==
    LET bp == dict_get(bp_list, cur_addr)
        same == [heap |-> heap, bp_list |-> bp_list, hooks |-> hooks, log |-> lg]
    IN  IF bp = 0 THEN same
        ELSE LET d == del_breakpoint(bp, lg)
             IN  [heap |-> heap, bp_list |-> d.bp_list, hooks |-> d.hooks,
                  log |-> do_context(d.log, cur_addr)]

\* _bp_handler clearing the flag when it finds the breakpoint already hit
_bp_handler_rearm(lg) ==
    LET bp == dict_get(bp_list, cur_addr)
        same == [heap |-> heap, bp_list |-> bp_list, hooks |-> hooks, log |-> lg]
    IN  IF bp = 0 THEN same
        ELSE IF heap[bp].temp
             THEN LET d == del_breakpoint(bp, lg)
                  IN  [heap |-> heap, bp_list |-> d.bp_list, hooks |-> d.hooks,
                       log |-> do_context(d.log, cur_addr)]
        ELSE IF heap[bp].hitted
             THEN [same EXCEPT !.heap = [heap EXCEPT ![bp].hitted = FALSE]]
        ELSE [heap    |-> [heap EXCEPT ![bp].hitted = TRUE],
              bp_list |-> bp_list,
              hooks   |-> hooks,
              log     |-> do_context(Append(lg, Ev("hit", cur_addr, 0)), cur_addr)]

\* _bp_handler: what one invocation of the hook callback leaves behind.
_bp_handler(lg) ==
    LET bp == dict_get(bp_list, cur_addr)
        same == [heap |-> heap, bp_list |-> bp_list, hooks |-> hooks, log |-> lg]
    IN  IF bp = 0 THEN same
        ELSE IF heap[bp].temp
             THEN LET d == del_breakpoint(bp, lg)
                  IN  [heap |-> heap, bp_list |-> d.bp_list, hooks |-> d.hooks,
                       log |-> do_context(d.log, cur_addr)]
        ELSE IF heap[bp].hitted THEN same
        ELSE [heap    |-> [heap EXCEPT ![bp].hitted = TRUE],
              bp_list |-> bp_list,
              hooks   |-> hooks,
              log     |-> do_context(Append(lg, Ev("hit", cur_addr, 0)), cur_addr)]

----------------------------------------------------------------------------
(* The engine: emu_start runs instructions until the count completes, the   *)
(* program exits, or execution reaches a hooked address, whose hooks are    *)
(* called in the order they were installed and halt the run.                *)

Min(S) == CHOOSE x \in S : \A y \in S : x <= y

\* ql.emu_start(begin, 0, count=count); count 0 runs without a limit
emu_start(begin, count, caller, lg) ==
    /\ state' = "Running"
    /\ arch_pc' = IF archtype = "ARM" THEN begin - (begin % 2) ELSE begin
    /\ delay' = 0
    /\ run' = [NoRun EXCEPT !.count = count, !.caller = caller]
    /\ log' = Append(lg, Ev("emu_start", begin, count))
    /\ UNCHANGED r0

\* _run leaving count out of the call to emu_start
_run_unbounded(address, count, caller, lg) ==
    LET a1 == IF address = 0 THEN cur_addr ELSE address
        a2 == IF archtype \in {"ARM", "ARM_THUMB"} /\ thumb
                 THEN a1 + (1 - (a1 % 2)) ELSE a1
    IN  emu_start(a2, 0, caller, lg)

\* _run without the is_thumb test: every ARM address is tagged
_run_arm_always(address, count, caller, lg) ==
    LET a1 == IF address = 0 THEN cur_addr ELSE address
        a2 == IF archtype \in {"ARM", "ARM_THUMB"}
                 THEN a1 + (1 - (a1 % 2)) ELSE a1
    IN  emu_start(a2, count, caller, lg)

\* _run(address, count)
_run(address, count, caller, lg) ==
    LET a1 == IF address = 0 THEN cur_addr ELSE address
        a2 == IF archtype \in {"ARM", "ARM_THUMB"} /\ thumb
                 THEN a1 + (1 - (a1 % 2)) ELSE a1
    IN  emu_start(a2, count, caller, lg)

CountDone == run.count > 0 /\ run.executed >= run.count

\* one instruction executes; hooks installed at the address reached become due
emu_exec ==
    /\ state = "Running"
    /\ run.pending = {} /\ ~run.halted /\ ~run.exited /\ ~CountDone
    /\ LET i == Insn(arch_pc)
           taken == IsBranch(arch_pc) /\ Taken(arch_pc, r0)
           npc == IF delay # 0 THEN delay
                  ELSE IF taken /\ archtype # "MIPS" THEN i.target
                  ELSE arch_pc + InstSize
       IN  IF i.op = "exit"
           THEN /\ run' = [run EXCEPT !.exited = TRUE]
                /\ UNCHANGED machine
           ELSE /\ arch_pc' = npc
                /\ r0' = IF i.op = "inc" THEN (r0 + 1) % RegMod ELSE r0
                /\ delay' = IF delay = 0 /\ taken /\ archtype = "MIPS"
                              THEN i.target ELSE 0
                /\ run' = [run EXCEPT !.executed = @ + 1,
                                      !.pending = {h \in hooks : heap[h].addr = npc}]
    /\ UNCHANGED <<config, bpvars, _states_list, state, lastcmd,
                   log, ghost>>

\* the engine calls the next due hook: _bp_handler runs inside the run
emu_hook ==
    /\ state = "Running"
    /\ run.pending # {}
    /\ LET h == Min(run.pending)
           res == _bp_handler(log)
       IN  /\ heap' = res.heap
           /\ bp_list' = res.bp_list
           /\ hooks' = res.hooks
           /\ log' = res.log
           /\ run' = [run EXCEPT !.pending = (@ \ {h}) \cap res.hooks,
                                 !.halted = TRUE]
    /\ UNCHANGED <<config, machine, next_hook, _states_list, state,
                   lastcmd, ghost>>

\* what the handler that called _run does once emu_start returns
after_run(caller, lg) ==
    IF caller = "do_step" THEN do_context(lg, cur_addr) ELSE lg

\* emu_start returns to the handler that called it, which finishes
emu_return ==
    /\ state = "Running"
    /\ run.pending = {}
    /\ run.halted \/ run.exited \/ CountDone
    /\ state' = "Stopped"
    /\ run' = NoRun
    /\ delay' = 0
    /\ log' = after_run(run.caller, log)
    /\ UNCHANGED <<config, arch_pc, r0, bpvars, _states_list, lastcmd, ghost>>

----------------------------------------------------------------------------
(* The step resolver and the snapshot store *)

\* handle_bnj(ql, cur_addr)[1]: where the next instruction begins, the branch
\* target when the instruction is a branch that is taken, and CODE_END when
\* no further instruction is mapped.
handle_bnj(a) ==
    IF Insn(a).op = "exit" THEN CODE_END
    ELSE IF IsBranch(a) /\ Taken(a, r0) THEN Insn(a).target
    ELSE a + InstSize

\* do_step's instruction count for one step
step_count(next_stop) ==
    IF archtype = "MIPS" /\ next_stop # cur_addr + 4 THEN 2 ELSE 1

\* _save: self._states_list.append(self.ql.save())
_save(lst) == Append(lst, ql_save)

\* _restore taking the oldest state: pop(0)
_restore_first(lst) ==
    [snap |-> lst[1], rest |-> SubSeq(lst, 2, Len(lst))]

\* _restore reading the newest state without popping it
_restore_peek(lst) ==
    [snap |-> lst[Len(lst)], rest |-> lst]

\* _restore: self.ql.restore(self._states_list.pop())
_restore(lst) ==
    [snap |-> lst[Len(lst)], rest |-> SubSeq(lst, 1, Len(lst) - 1)]

----------------------------------------------------------------------------
(* The handlers of the dispatcher.  Each is the whole do_ method; the ones  *)
(* that start the engine leave the session Running until emu_return.        *)

\* an exception that no handler catches leaves cmdloop and ends the session
uncaught ==
    /\ state' = "Crashed"
    /\ log' = <<Ev("traceback", 0, 0)>>
    /\ UNCHANGED <<config, machine, bpvars, _states_list, run, ghost>>

do_start ==
    /\ arch_pc' = entry_point
    /\ log' = do_context(<<>>, entry_point)
    /\ scen' = NoScen
    /\ UNCHANGED <<config, r0, delay, bpvars, _states_list, state,
                   run, nfwd, nback>>

do_run ==
    /\ _run(0, 0, "do_run", <<>>)
    /\ scen' = NoScen
    /\ UNCHANGED <<config, bpvars, _states_list, nfwd, nback>>

\* do_continue saving the state before it resumes, as do_step does
do_continue_save(arg) ==
    LET address == IF arg # <<>> THEN parse_int(arg) ELSE 0
    IN  IF address = ParseError THEN uncaught
        ELSE /\ _states_list' = IF rr THEN _save(_states_list) ELSE _states_list
             /\ _run(address, 0, "do_continue", <<Ev("continued_from", cur_addr, 0)>>)
             /\ scen' = NoScen
             /\ UNCHANGED <<config, bpvars, nfwd, nback>>

do_continue(arg) ==
    LET address == IF arg # <<>> THEN parse_int(arg) ELSE 0
    IN  IF address = ParseError THEN uncaught
        ELSE /\ _run(address, 0, "do_continue", <<Ev("continued_from", cur_addr, 0)>>)
             /\ scen' = NoScen
             /\ UNCHANGED <<config, bpvars, _states_list, nfwd, nback>>

do_breakpoint(arg) ==
    LET address == IF arg # <<>> THEN parse_int(arg) ELSE cur_addr
    IN  IF address = ParseError THEN uncaught
        ELSE /\ set_breakpoint(address, FALSE)
             /\ log' = <<Ev("breakpoint_at", address, 0)>>
             /\ scen' = NoScen
             /\ UNCHANGED <<config, machine, _states_list, state, run,
                            nfwd, nback>>

\* do_step saving the state before it looks at the resolver's answer
do_step_save_first ==
    LET next_stop == handle_bnj(cur_addr)
    IN  IF next_stop = CODE_END
        THEN /\ state' = "Ended"
             /\ log' = <<>>
             /\ _states_list' = IF rr THEN _save(_states_list) ELSE _states_list
             /\ UNCHANGED <<config, machine, bpvars, run, ghost>>
        ELSE /\ nfwd < MaxSteps
             /\ _states_list' = IF rr THEN _save(_states_list) ELSE _states_list
             /\ _run(0, step_count(next_stop), "do_step", <<>>)
             /\ nfwd' = IF rr THEN nfwd + 1 ELSE nfwd
             /\ scen' = IF ~rr THEN NoScen
                        ELSE IF _states_list = <<>>
                          THEN [ok |-> TRUE, pre |-> <<ql_save>>, backs |-> 0]
                        ELSE IF scen.ok /\ scen.backs = 0
                          THEN [scen EXCEPT !.pre = Append(@, ql_save)]
                        ELSE NoScen
             /\ UNCHANGED <<config, bpvars, nback>>

do_step ==
    LET next_stop == handle_bnj(cur_addr)
    IN  IF next_stop = CODE_END
        THEN /\ state' = "Ended"
             /\ log' = <<>>
             /\ UNCHANGED <<config, machine, bpvars, _states_list, run, ghost>>
        ELSE /\ nfwd < MaxSteps
             /\ _states_list' = IF rr THEN _save(_states_list) ELSE _states_list
             /\ _run(0, step_count(next_stop), "do_step", <<>>)
             /\ nfwd' = IF rr THEN nfwd + 1 ELSE nfwd
             /\ scen' = IF ~rr THEN NoScen
                        ELSE IF _states_list = <<>>
                          THEN [ok |-> TRUE, pre |-> <<ql_save>>, backs |-> 0]
                        ELSE IF scen.ok /\ scen.backs = 0
                          THEN [scen EXCEPT !.pre = Append(@, ql_save)]
                        ELSE NoScen
             /\ UNCHANGED <<config, bpvars, nback>>

\* do_backward testing only that the store exists: pop() on the empty list raises
do_backward_rr_only ==
    IF ~rr
    THEN /\ log' = <<Ev("no_way_back", 0, 0)>>
         /\ scen' = NoScen
         /\ UNCHANGED <<config, machine, bpvars, _states_list, state,
                        run, nfwd, nback>>
    ELSE IF Len(_states_list) = 0 THEN uncaught
    ELSE LET res == _restore(_states_list)
         IN  /\ _states_list' = res.rest
             /\ arch_pc' = res.snap.pc
             /\ r0' = res.snap.r0
             /\ log' = do_context(<<Ev("step_backward", 0, 0),
                                    Ev("restore", res.snap.pc, 0)>>, res.snap.pc)
             /\ nback' = nback + 1
             /\ scen' = IF scen.ok THEN [scen EXCEPT !.backs = @ + 1] ELSE NoScen
             /\ UNCHANGED <<config, delay, bpvars, state, run, nfwd>>

do_backward ==
    IF ~rr \/ Len(_states_list) = 0
    THEN /\ log' = <<Ev("no_way_back", 0, 0)>>
         /\ scen' = NoScen
         /\ UNCHANGED <<config, machine, bpvars, _states_list, state,
                        run, nfwd, nback>>
    ELSE LET res == _restore(_states_list)
         IN  /\ _states_list' = res.rest
             /\ arch_pc' = res.snap.pc
             /\ r0' = res.snap.r0
             /\ log' = do_context(<<Ev("step_backward", 0, 0),
                                    Ev("restore", res.snap.pc, 0)>>, res.snap.pc)
             /\ nback' = nback + 1
             /\ scen' = IF scen.ok THEN [scen EXCEPT !.backs = @ + 1] ELSE NoScen
             /\ UNCHANGED <<config, delay, bpvars, state, run, nfwd>>

\* the display handlers change nothing but what is printed
display(lg) ==
    /\ log' = lg
    /\ scen' = NoScen
    /\ UNCHANGED <<config, machine, bpvars, _states_list, state, run,
                   nfwd, nback>>

context_cmd == display(do_context(<<>>, cur_addr))

do_show == display(<<Ev("show", Cardinality(bp_list), 0)>>)

\* examine_mem sits in a try/except
do_examine(arg) ==
    display(IF arg = <<>> \/ parse_int(arg) \notin CodeAddrs
              THEN <<Ev("went_wrong", 0, 0)>>
              ELSE <<Ev("examine", parse_int(arg), 0)>>)

\* parse_int and context_asm sit in a try/except
do_disassemble(arg) ==
    display(IF parse_int(arg) \notin CodeAddrs
              THEN <<Ev("went_wrong", 0, 0)>>
              ELSE <<Ev("disassemble", parse_int(arg), 4)>>)

do_quit ==
    /\ state' = "Idle"
    /\ log' = <<Ev("ql_stop", 0, 0)>>
    /\ UNCHANGED <<config, machine, bpvars, _states_list, run, ghost>>

\* do_shell evaluates a Python expression; the ones that matter here call the
\* breakpoint methods that no verb reaches: set_breakpoint(a, True) and
\* del_breakpoint(bp) on a Breakpoint object taken from bp_list earlier.
shell_set_temp(a) ==
    /\ set_breakpoint(a, TRUE)
    /\ log' = <<Ev("print", 0, 0)>>
    /\ scen' = NoScen
    /\ UNCHANGED <<config, machine, _states_list, state, run, nfwd, nback>>

shell_del(bp) ==
    LET d == del_breakpoint(bp, <<>>)
    IN  /\ heap[bp].made
        /\ bp_list' = d.bp_list
        /\ hooks' = d.hooks
        /\ log' = Append(d.log, Ev("print", 0, 0))
        /\ scen' = NoScen
        /\ UNCHANGED <<config, machine, next_hook, heap, _states_list, state, run, nfwd, nback>>

Verbs == {"start", "run", "step", "backward", "continue", "breakpoint", "context",
          "show", "examine", "disassemble", "quit"}

\* emptyline: getattr(self, "do_" + self.lastcmd, None), called with no argument.
\* self.lastcmd is the whole line, so a line that had an argument names no
\* method and nothing is called; do_examine and do_disassemble need their
\* argument, and the call without it raises.
emptyline ==
    /\ state = "Stopped"
    /\ lastcmd' = lastcmd
    /\ IF lastcmd.cmd \in Verbs /\ lastcmd.arg = <<>>
       THEN CASE lastcmd.cmd = "start"       -> do_start
              [] lastcmd.cmd = "run"         -> do_run
              [] lastcmd.cmd = "step"        -> do_step
              [] lastcmd.cmd = "backward"    -> do_backward
              [] lastcmd.cmd = "continue"    -> do_continue(<<>>)
              [] lastcmd.cmd = "breakpoint"  -> do_breakpoint(<<>>)
              [] lastcmd.cmd = "context"     -> context_cmd
              [] lastcmd.cmd = "show"        -> do_show
              [] lastcmd.cmd = "quit"        -> do_quit
              [] OTHER                       -> uncaught
       ELSE /\ log' = <<>>
            /\ UNCHANGED <<config, machine, bpvars, _states_list, state,
                           run, ghost>>

\* onecmd: a non-empty line is remembered and its handler called with its argument
onecmd(verb, arg) == state = "Stopped" /\ lastcmd' = Line(verb, arg)

\* The arguments the operator gives to each verb
ContinueArgs == {<<>>, <<"4", "1", "1", "2">>, <<"0">>, <<"0", "x", "1", "g">>}
BreakArgs == {<<>>, <<"0", "x", "1", "0", "0", "0">>, <<"4", "1", "1", "2">>,
              <<"0", "x", "1", "g">>}
DisArgs == {<<>>, <<"0", "x", "1", "0", "0", "0">>, <<"0", "x", "1", "g">>}
TempAddrs == {entry_point, entry_point + 4 * InstSize}

cmd_start == onecmd("start", <<>>) /\ do_start
cmd_run == onecmd("run", <<>>) /\ do_run
cmd_continue == \E arg \in ContinueArgs : onecmd("continue", arg) /\ do_continue(arg)
cmd_breakpoint == \E arg \in BreakArgs : onecmd("breakpoint", arg) /\ do_breakpoint(arg)
cmd_step == onecmd("step", <<>>) /\ do_step
cmd_backward == onecmd("backward", <<>>) /\ do_backward
cmd_context == onecmd("context", <<>>) /\ context_cmd
cmd_show == onecmd("show", <<>>) /\ do_show
cmd_examine == \E arg \in DisArgs : onecmd("examine", arg) /\ do_examine(arg)
cmd_disassemble == \E arg \in DisArgs : onecmd("disassemble", arg) /\ do_disassemble(arg)
cmd_quit == onecmd("quit", <<>>) /\ do_quit
\* the text of the two shell expressions: the argument is part of the line
TempExpr(a) == <<"set_breakpoint", IF a = entry_point THEN "0x1000" ELSE "0x1010", "True">>
DelExpr(bp) == <<"del_breakpoint", Digits[bp + 1]>>

cmd_shell_set_temp ==
    \E a \in TempAddrs : onecmd("shell", TempExpr(a)) /\ shell_set_temp(a)
cmd_shell_del ==
    \E bp \in 1..MaxHooks : onecmd("shell", DelExpr(bp)) /\ shell_del(bp)

Engine == emu_exec \/ emu_hook \/ emu_return

\* The whole dispatcher
Next ==
    \/ cmd_start \/ cmd_run \/ cmd_continue \/ cmd_breakpoint \/ cmd_step
    \/ cmd_backward \/ cmd_context \/ cmd_show
    \/ cmd_examine \/ cmd_disassemble \/ cmd_quit
    \/ cmd_shell_set_temp \/ cmd_shell_del \/ emptyline
    \/ Engine

Spec == Init /\ [][Next]_vars

\* A session without reverse mode in which the operator works with breakpoints
NextBp ==
    \/ cmd_start \/ cmd_run \/ cmd_continue \/ cmd_breakpoint \/ cmd_step
    \/ cmd_shell_set_temp \/ cmd_shell_del \/ cmd_quit
    \/ Engine

InitBp == Init /\ rr = FALSE

SpecBp == InitBp /\ [][NextBp]_vars

\* The same session with an engine that keeps executing: a run call that can
\* go on does go on (the call blocks the dispatcher until it returns)
SpecBpLive == SpecBp /\ WF_vars(Engine)

\* A session with reverse mode in which the operator steps back and forth
NextRev ==
    \/ cmd_start \/ cmd_run \/ cmd_continue \/ cmd_breakpoint \/ cmd_step
    \/ cmd_backward \/ cmd_disassemble \/ cmd_quit
    \/ Engine

InitRev == Init /\ rr = TRUE

SpecRev == InitRev /\ [][NextRev]_vars

\* A session, with or without reverse mode, in which the operator steps,
\* resumes and steps back
NextBack ==
    \/ cmd_start \/ cmd_continue \/ cmd_breakpoint \/ cmd_step
    \/ cmd_backward \/ cmd_quit
    \/ Engine

SpecBack == Init /\ [][NextBack]_vars

\* A session in which the operator uses every operation on the breakpoint table
NextTable ==
    \/ cmd_start \/ cmd_run \/ cmd_continue \/ cmd_breakpoint \/ cmd_step
    \/ cmd_backward \/ cmd_shell_set_temp \/ cmd_shell_del \/ cmd_quit
    \/ Engine

SpecTable == InitRev /\ [][NextTable]_vars

\* A session with reverse mode in which the operator types every verb and
\* empty lines
NextLine ==
    \/ cmd_start \/ cmd_run \/ cmd_continue \/ cmd_breakpoint \/ cmd_step
    \/ cmd_backward \/ cmd_context \/ cmd_show
    \/ cmd_examine \/ cmd_disassemble \/ cmd_quit \/ emptyline
    \/ Engine

SpecLine == InitRev /\ [][NextLine]_vars

----------------------------------------------------------------------------
(* Observations used by the properties *)

\* the indices of the hit notifications the current command has printed
Hits(lg) == {i \in 1..Len(lg) : lg[i].ev = "hit"}

\* the engine calls of a kind the current command has made
Calls(lg, kind) == {i \in 1..Len(lg) : lg[i].ev = kind}

\* the hooks installed at an address
HooksAt(a) == {h \in hooks : heap[h].addr = a}

\* the engine is about to call the hook callback at the current address
HookDue == state = "Running" /\ run.pending # {}

\* the table's breakpoint at the current address (0: none)
BpHere == dict_get(bp_list, cur_addr)

----------------------------------------------------------------------------
(* Breakpoints *)

C1_Reached ==
    /\ HookDue
    /\ run.caller \in {"do_continue", "do_run"}
    /\ BpHere # 0
    /\ ~heap[BpHere].temp
    /\ ~heap[BpHere].hitted

\* C1: when a run started by continue or run reaches the address a of a
\* Persistent breakpoint that has not been hit, the handler reports the hit
\* notification for a, the only one of the command, and the run is halted
\* at a; from then on no instruction executes and nothing more is notified,
\* and once no hook is due the run call returns to Stopped with cur_addr = a.
C1_ContinueHaltsAtBreakpoint ==
    [][ /\ C1_Reached =>
            /\ Cardinality(Hits(log')) = 1
            /\ \A i \in Hits(log') : log'[i].a = cur_addr
            /\ run'.halted
            /\ arch_pc' = arch_pc
        /\ (state = "Running" /\ run.halted) =>
            /\ arch_pc' = arch_pc
            /\ Hits(log') = Hits(log)
            /\ state' = IF run.pending = {} THEN "Stopped" ELSE "Running"
      ]_vars

\* C1 witness: continue from the entry has stopped at the breakpoint at 0x1010
\* with its one hit notification.
C1_Witness ==
    /\ state = "Stopped"
    /\ lastcmd = Line("continue", <<>>)
    /\ arch_pc = entry_point + 4 * InstSize
    /\ Cardinality(Hits(log)) = 1
    /\ \A i \in Hits(log) : log[i].a = arch_pc
    /\ \E i \in Calls(log, "emu_start") : log[i].a \in {entry_point, entry_point + 1}

C5_Reentered ==
    /\ HookDue
    /\ BpHere # 0
    /\ ~heap[BpHere].temp
    /\ heap[BpHere].hitted

\* C5: an invocation of the handler at a Persistent breakpoint that is already
\* hit changes nothing and reports nothing; and when the handler is invoked
\* again at the same arrival (a hook already fired there), the Persistent
\* breakpoint is already hit and the command has reported one notification
\* at most.
C5_SecondInvocationNoOp ==
    /\ [][ C5_Reentered =>
             UNCHANGED <<log, heap, bp_list, hooks, next_hook, machine, _states_list,
                         state, lastcmd>> ]_vars
    /\ [](( HookDue /\ run.halted /\ BpHere # 0 /\ ~heap[BpHere].temp) =>
             (heap[BpHere].hitted /\ Cardinality(Hits(log)) <= 1))

\* C5 witness: two hooks at the address of a Persistent breakpoint have both
\* been called at one arrival, and one notification was printed.
C5_Witness ==
    /\ state = "Running"
    /\ run.halted
    /\ run.pending = {}
    /\ Cardinality(HooksAt(arch_pc)) >= 2
    /\ BpHere # 0
    /\ ~heap[BpHere].temp
    /\ heap[BpHere].hitted
    /\ Cardinality(Hits(log)) = 1

\* C6: the handler invoked at a OneShot breakpoint removes its address from
\* the table and releases its hook, then reports context, with no hit
\* notification; invoked at an address that has no entry, it reports nothing.
C6_OneShotAutoRemoval ==
    [][ /\ (HookDue /\ BpHere # 0 /\ heap[BpHere].temp) =>
            /\ ~dict_has(bp_list', cur_addr)
            /\ BpHere \notin hooks'
            /\ log' = log \o <<Ev("hook_remove", cur_addr, BpHere),
                               Ev("context", cur_addr, 0)>>
        /\ (HookDue /\ BpHere = 0) => log' = log
      ]_vars

\* C6 witness: a run has stopped where a OneShot breakpoint fired: its hook is
\* released, the address has no entry, and the context came after the removal.
C6_Witness ==
    /\ state = "Stopped"
    /\ ~dict_has(bp_list, arch_pc)
    /\ \E i \in Calls(log, "hook_remove") :
          /\ heap[log[i].n].temp
          /\ log[i].a = arch_pc
          /\ log[i].n \notin hooks
          /\ i < Len(log)
          /\ log[i + 1] = Ev("context", arch_pc, 0)
    /\ Hits(log) = {}

\* C7: the table holds at most one breakpoint per address.
C7_OneBreakpointPerAddress ==
    \A e1 \in bp_list : \A e2 \in bp_list : e1.key = e2.key => e1 = e2

\* C7 witness: a breakpoint was set twice at one address, which has one entry.
C7_Witness ==
    /\ lastcmd.cmd = "breakpoint"
    /\ \E e \in bp_list :
          /\ Cardinality({h \in 1..MaxHooks : heap[h].made /\ heap[h].addr = e.key}) >= 2
          /\ Cardinality({x \in bp_list : x.key = e.key}) = 1

\* C8: del_breakpoint(bp) for a bp whose address has no entry calls no hook
\* removal, raises nothing and leaves the table and the hooks as they were.
C8_DeleteAbsentIsNoOp ==
    [][ \A bp \in 1..MaxHooks :
          ( /\ state = "Stopped"
            /\ lastcmd' = Line("shell", DelExpr(bp))
            /\ heap[bp].made
            /\ ~dict_has(bp_list, heap[bp].addr) ) =>
          ( /\ bp_list' = bp_list
            /\ hooks' = hooks
            /\ Calls(log', "hook_remove") = {}
            /\ state' = "Stopped" ) ]_vars

\* C8 witness: a breakpoint whose entry and hook were already gone has been
\* deleted again, with no hook removal.
C8_Witness ==
    /\ state = "Stopped"
    /\ \E bp \in 1..MaxHooks :
          /\ lastcmd = Line("shell", DelExpr(bp))
          /\ heap[bp].made
          /\ bp \notin hooks
          /\ ~dict_has(bp_list, heap[bp].addr)
          /\ Calls(log, "hook_remove") = {}

----------------------------------------------------------------------------
(* Stepping and reverse stepping *)

\* C2: with reverse mode on, after N consecutive steps from an empty store and
\* k reverse steps after them (scen.pre holds the machine state before each of
\* the N steps, scen.backs is k), the store has N - k entries, and once k > 0
\* the machine is in the state captured before step N - k + 1.
C2_SnapshotStackDiscipline ==
    (rr /\ scen.ok) =>
        /\ Len(_states_list) = Len(scen.pre) - scen.backs
        /\ scen.backs > 0 => ql_save = scen.pre[Len(scen.pre) - scen.backs + 1]

\* C2 witness: two steps and then two reverse steps have emptied the store.
C2_Witness ==
    /\ rr
    /\ scen.ok
    /\ Len(scen.pre) >= 2
    /\ scen.backs = Len(scen.pre)
    /\ scen.pre[1] # scen.pre[2]
    /\ _states_list = <<>>

\* C3: with reverse mode on, the store's length is the number of forward steps
\* executed minus the number of reverse steps that restored.
C3_StoreLengthIsStepsMinusBacks ==
    rr => Len(_states_list) = nfwd - nback

\* C3 witness: steps, a reverse step and a continue have been interleaved.
C3_Witness ==
    /\ rr
    /\ state = "Stopped"
    /\ nfwd >= 2
    /\ nback >= 1
    /\ lastcmd.cmd = "continue"
    /\ bp_list # {}

\* C4: a malformed number given to breakpoint, continue or disassemble is
\* reported and leaves the session Stopped, with the table, the store and
\* cur_addr unchanged and no engine run started.
C4_MalformedArgumentRecoverable ==
    [][ ( /\ state = "Stopped"
          /\ lastcmd'.cmd \in {"breakpoint", "continue", "disassemble"}
          /\ lastcmd'.arg # <<>>
          /\ parse_int(lastcmd'.arg) = ParseError ) =>
        ( /\ state' = "Stopped"
          /\ bp_list' = bp_list
          /\ _states_list' = _states_list
          /\ arch_pc' = arch_pc
          /\ Calls(log', "emu_start") = {}
          /\ log' # <<>> ) ]_vars

\* C9: a step at an address where the resolver answers CODE_END ends the
\* command loop, starts no engine run, pushes no snapshot and leaves cur_addr.
C9_TerminalStep ==
    [][ ( /\ state = "Stopped"
          /\ lastcmd' = Line("step", <<>>)
          /\ handle_bnj(cur_addr) = CODE_END ) =>
        ( /\ state' = "Ended"
          /\ Calls(log', "emu_start") = {}
          /\ run' = NoRun
          /\ _states_list' = _states_list
          /\ arch_pc' = arch_pc ) ]_vars

\* C9 witness: with reverse mode on and a snapshot in the store, a step at the
\* last mapped instruction has ended the session.
C9_Witness ==
    /\ state = "Ended"
    /\ rr
    /\ arch_pc = LastAddr
    /\ Len(_states_list) >= 1

\* C10: one step asks the engine for 2 instructions on MIPS when the
\* instruction at cur_addr is a taken branch, and for 1 otherwise.
C10_DelaySlotCount ==
    [][ ( /\ state = "Stopped"
          /\ lastcmd' = Line("step", <<>>)
          /\ handle_bnj(cur_addr) # CODE_END ) =>
        ( \E i \in Calls(log', "emu_start") :
              log'[i].n = IF archtype = "MIPS" /\ IsBranch(cur_addr) /\ Taken(cur_addr, r0)
                            THEN 2 ELSE 1 ) ]_vars

----------------------------------------------------------------------------
(* Reverse stepping without history, and repeating the last command *)

\* C11: a reverse step taken when the store is empty, or in a session without
\* reverse mode, prints the no-history notice, calls no engine restore and
\* leaves cur_addr, the registers, the store, the table and the hooks as they
\* were; the session stays Stopped.
C11_NoHistoryReverseStep ==
    [][ ( /\ state = "Stopped"
          /\ lastcmd' = Line("backward", <<>>)
          /\ (~rr \/ Len(_states_list) = 0) ) =>
        ( /\ log' = <<Ev("no_way_back", 0, 0)>>
          /\ Calls(log', "restore") = {}
          /\ UNCHANGED <<arch_pc, r0, _states_list, bp_list, hooks, heap>>
          /\ state' = "Stopped" ) ]_vars

\* C11 witness: with reverse mode on, every step taken has been undone and one
\* more reverse step has printed the notice, a breakpoint being in the table.
C11_Witness ==
    /\ rr
    /\ state = "Stopped"
    /\ lastcmd = Line("backward", <<>>)
    /\ nfwd >= 1
    /\ nback = nfwd
    /\ _states_list = <<>>
    /\ bp_list # {}
    /\ log = <<Ev("no_way_back", 0, 0)>>

\* the handler of a verb, called with the argument of the line
C12_Handler(verb, arg) ==
    CASE verb = "start"        -> do_start
      [] verb = "run"          -> do_run
      [] verb = "step"         -> do_step
      [] verb = "backward"     -> do_backward
      [] verb = "continue"     -> do_continue(arg)
      [] verb = "breakpoint"   -> do_breakpoint(arg)
      [] verb = "context"      -> context_cmd
      [] verb = "show"         -> do_show
      [] verb = "examine"      -> do_examine(arg)
      [] verb = "disassemble"  -> do_disassemble(arg)
      [] verb = "quit"         -> do_quit

\* C12: an empty line entered after a command does what the handler of that
\* command's verb does with that command's argument, and nothing else.
C12_RepeatLastCommand ==
    [][ (emptyline /\ lastcmd.cmd \in Verbs) =>
            C12_Handler(lastcmd.cmd, lastcmd.arg) ]_vars

----------------------------------------------------------------------------
(* The engine's run and the handler called from inside it *)

\* C13: an invocation of the handler, whatever it finds at the current address,
\* asks the engine for no run and leaves the active run call and the machine
\* as they are; a command makes one engine run call at most, and while the
\* session is Running exactly one is active.
C13_NoRecursiveRun ==
    /\ [][ HookDue =>
             /\ Calls(log', "emu_start") = Calls(log, "emu_start")
             /\ run'.count = run.count
             /\ run'.caller = run.caller
             /\ run'.executed = run.executed
             /\ state' = "Running"
             /\ UNCHANGED machine ]_vars
    /\ [](Cardinality(Calls(log, "emu_start")) = (IF state = "Running" THEN 1 ELSE
             IF Calls(log, "emu_start") = {} THEN 0 ELSE 1))

\* C13 witness: the handler has been called at an address whose hook outlived
\* its table entry, inside the one run of the command, and did nothing.
C13_Witness ==
    /\ state = "Running"
    /\ run.halted
    /\ run.pending = {}
    /\ HooksAt(arch_pc) # {}
    /\ BpHere = 0
    /\ Hits(log) = {}
    /\ Calls(log, "hook_remove") = {}
    /\ Calls(log, "context") = {}
    /\ Cardinality(Calls(log, "emu_start")) = 1

\* C14: a step leaves the dispatcher either Ended or inside one engine run of
\* 1 or 2 instructions; that run call returns only when no hook is due and the
\* count is complete or a hook has interrupted it, and it then leaves the
\* session Stopped with the context printed; and it does return, so the
\* operator never gets a prompt while the step is Running.
C14_StepNeverLeavesRunning ==
    /\ [][ /\ (state = "Stopped" /\ lastcmd' = Line("step", <<>>)) =>
                (\/ state' = "Ended"
                 \/ /\ state' = "Running"
                    /\ run'.caller = "do_step"
                    /\ run'.count \in 1..2)
           /\ (state = "Running" /\ run.caller = "do_step" /\ state' # "Running") =>
                (/\ state' = "Stopped"
                 /\ run.pending = {}
                 /\ run.halted \/ run.executed = run.count
                 /\ log' = do_context(log, cur_addr))
           /\ state = "Running" => lastcmd' = lastcmd
          ]_vars
    /\ [](state = "Running" /\ run.caller = "do_step" =>
             run.count \in 1..2 /\ run.executed <= run.count)
    /\ ((state = "Running" /\ run.caller = "do_step") ~> (state = "Stopped"))

\* C14 witness: on MIPS a step of 2 instructions has been interrupted after the
\* first by a breakpoint hook and has returned to Stopped.
C14_Witness ==
    /\ state = "Stopped"
    /\ lastcmd = Line("step", <<>>)
    /\ archtype = "MIPS"
    /\ \E i \in Calls(log, "emu_start") : log[i].n = 2 /\ log[i].a + InstSize = arch_pc
    /\ Hits(log) # {}
    /\ log[Len(log)] = Ev("context", arch_pc, 0)

----------------------------------------------------------------------------
(* The breakpoint table and the engine's hooks *)

\* the command being executed sets a breakpoint of kind k (TRUE: OneShot) at a
C15_Sets(a, k) ==
    /\ state = "Stopped"
    /\ \/ /\ ~k
          /\ lastcmd'.cmd = "breakpoint"
          /\ a = (IF lastcmd'.arg = <<>> THEN cur_addr ELSE parse_int(lastcmd'.arg))
       \/ /\ k
          /\ a \in TempAddrs
          /\ lastcmd' = Line("shell", TempExpr(a))

\* C15: setting a breakpoint at an address that has an entry replaces the
\* entry by a new breakpoint of the requested kind that is not hit, installs
\* the new hook there and releases none: the address keeps one entry and has
\* one hook more than before.
C15_LastWriteWins ==
    [][ \A a \in CodeAddrs : \A k \in BOOLEAN :
          (C15_Sets(a, k) /\ dict_has(bp_list, a)) =>
             LET new == next_hook + 1
             IN  /\ next_hook' = new
                 /\ new \notin hooks
                 /\ Cardinality({e \in bp_list' : e.key = a}) = 1
                 /\ dict_get(bp_list', a) = new
                 /\ heap'[new] = [addr |-> a, temp |-> k, hitted |-> FALSE, made |-> TRUE]
                 /\ {h \in hooks' : heap'[h].addr = a} = HooksAt(a) \cup {new}
                 /\ dict_get(bp_list, a) \in hooks'
                 /\ hooks' = hooks \cup {new} ]_vars

\* C15 witness: a breakpoint that had been hit was set again: its address has
\* one entry, the new breakpoint, not hit, and the hooks of both.
C15_Witness ==
    /\ state = "Stopped"
    /\ lastcmd.cmd = "breakpoint"
    /\ \E e \in bp_list :
          /\ e.bp = 2
          /\ ~heap[2].hitted
          /\ heap[1].hitted
          /\ heap[1].addr = e.key
          /\ HooksAt(e.key) = {1, 2}

\* the command being executed is an explicit set-breakpoint of kind k
C16_ExplicitSet(k) ==
    /\ state = "Stopped"
    /\ \/ ~k /\ lastcmd'.cmd = "breakpoint"
       \/ k /\ \E a \in TempAddrs : lastcmd' = Line("shell", TempExpr(a))

\* the command being executed is an explicit delete
C16_ExplicitDelete ==
    /\ state = "Stopped"
    /\ \E bp \in 1..MaxHooks : lastcmd' = Line("shell", DelExpr(bp))

\* the handler is being called at the OneShot breakpoint of entry e
C16_OneShotFires(e) == HookDue /\ e.key = cur_addr /\ heap[e.bp].temp

\* the verb of the command being executed is one of vs
C16_Command(vs) == state = "Stopped" /\ lastcmd'.cmd \in vs

\* C16 as claimed: an item enters the table only in an explicit set-breakpoint,
\* as a Persistent breakpoint, or in a step, as a OneShot breakpoint; an
\* address leaves the table only in an explicit delete or when its OneShot
\* breakpoint fires; run, continue, backward and start leave the table alone.
C16_Lifecycle ==
    [][ /\ \A e \in bp_list' \ bp_list :
              \/ C16_ExplicitSet(FALSE) /\ ~heap'[e.bp].temp
              \/ C16_Command({"step"}) /\ heap'[e.bp].temp
        /\ \A e \in bp_list \ bp_list' :
              ~dict_has(bp_list', e.key) => (C16_ExplicitDelete \/ C16_OneShotFires(e))
        /\ C16_Command({"run", "continue", "backward", "start"}) => bp_list' = bp_list
      ]_vars

\* C16 amended: an item enters the table only in an explicit set-breakpoint,
\* Persistent from the breakpoint verb and OneShot from set_breakpoint(a, True);
\* an address leaves the table only in an explicit delete or when its OneShot
\* breakpoint fires; step, run, continue, backward and start leave the table
\* alone.
C16_LifecycleExplicitOnly ==
    [][ /\ \A e \in bp_list' \ bp_list :
              \/ C16_ExplicitSet(FALSE) /\ ~heap'[e.bp].temp
              \/ C16_ExplicitSet(TRUE) /\ heap'[e.bp].temp
        /\ \A e \in bp_list \ bp_list' :
              ~dict_has(bp_list', e.key) => (C16_ExplicitDelete \/ C16_OneShotFires(e))
        /\ C16_Command({"step", "run", "continue", "backward", "start"}) =>
              bp_list' = bp_list
      ]_vars

\* C16 witness: a continue has stopped where a OneShot breakpoint fired and
\* left the table, which still holds a Persistent breakpoint that was hit.
C16_Witness ==
    /\ state = "Stopped"
    /\ lastcmd.cmd = "continue"
    /\ \E i \in Calls(log, "hook_remove") :
          /\ heap[log[i].n].temp
          /\ log[i].a = arch_pc
    /\ ~dict_has(bp_list, arch_pc)
    /\ \E e \in bp_list : ~heap[e.bp].temp /\ heap[e.bp].hitted

----------------------------------------------------------------------------
(* The start address of a run *)

\* C17: the engine run that run, continue or step issues starts at the address
\* given, or at cur_addr when none or 0 is given; on ARM in Thumb mode the
\* address handed to the engine is that address with bit 0 set, and in every
\* other case it is that address itself.
C17_RunAddressTagging ==
    [][ ( /\ state = "Stopped"
          /\ lastcmd'.cmd \in {"run", "continue", "step"}
          /\ state' = "Running" ) =>
        LET given == IF lastcmd'.cmd = "continue" /\ lastcmd'.arg # <<>>
                       THEN parse_int(lastcmd'.arg) ELSE 0
            base == IF given = 0 THEN cur_addr ELSE given
            want == IF archtype = "ARM" /\ thumb
                      THEN (IF base % 2 = 0 THEN base + 1 ELSE base)
                      ELSE base
        IN  /\ Calls(log', "emu_start") # {}
            /\ \A i \in Calls(log', "emu_start") : log'[i].a = want ]_vars

\* C17 witness: in Thumb mode, continue 4112 issued after the program had left
\* the entry has asked the engine to start at 4113.
C17_Witness ==
    /\ archtype = "ARM"
    /\ thumb
    /\ lastcmd = Line("continue", <<"4", "1", "1", "2">>)
    /\ \E i \in Calls(log, "emu_start") : log[i].a = entry_point + 4 * InstSize + 1
    /\ \E i \in Calls(log, "continued_from") : log[i].a # entry_point

----------------------------------------------------------------------------
(* The hit flag *)

\* C18: the hit flag of a breakpoint object, once set, stays set through every
\* operation; a hit notification is printed only by a handler call that finds
\* the flag clear and sets it, so an object is reported once at most; and an
\* entry that is not hit comes into the table only as a newly made object.
C18_HitFlagMonotone ==
    [][ /\ \A h \in 1..MaxHooks : heap[h].hitted => heap'[h].hitted
        /\ Cardinality(Hits(log')) > Cardinality(Hits(log)) =>
              /\ HookDue
              /\ BpHere # 0
              /\ ~heap[BpHere].hitted
              /\ heap'[BpHere].hitted
              /\ Cardinality(Hits(log')) = Cardinality(Hits(log)) + 1
        /\ \A e \in bp_list' \ bp_list :
              /\ ~heap[e.bp].made
              /\ ~heap'[e.bp].hitted
              /\ state = "Stopped" /\ lastcmd'.cmd = "breakpoint"
      ]_vars

\* C18 witness: a continue from the address of a breakpoint that was already
\* hit has come round to it again and stopped there without a notification.
C18_Witness ==
    /\ state = "Stopped"
    /\ lastcmd.cmd = "continue"
    /\ arch_pc = entry_point
    /\ BpHere # 0
    /\ ~heap[BpHere].temp
    /\ heap[BpHere].hitted
    /\ \E i \in Calls(log, "continued_from") : log[i].a = arch_pc
    /\ Calls(log, "emu_start") # {}
    /\ Hits(log) = {}

----------------------------------------------------------------------------
(* The snapshot store across run, continue and start *)

\* C19: run, continue and start, and the engine's execution, leave the store
\* as it is; a step that executes pushes the machine state it starts from;
\* a reverse step with history pops the newest state and puts the machine in
\* it.  So a reverse step returns to the state before the latest step not yet
\* undone, whatever ran in between.
C19_ReverseStepAcrossRuns ==
    [][ /\ (state = "Stopped" /\ lastcmd'.cmd \in {"run", "continue", "start"}) =>
              _states_list' = _states_list
        /\ state = "Running" => _states_list' = _states_list
        /\ (state = "Stopped" /\ lastcmd' = Line("step", <<>>) /\ state' = "Running") =>
              _states_list' = Append(_states_list, [pc |-> arch_pc, r0 |-> r0])
        /\ (state = "Stopped" /\ lastcmd' = Line("backward", <<>>)
               /\ Len(_states_list) > 0) =>
              /\ Len(_states_list') = Len(_states_list) - 1
              /\ \A i \in 1..Len(_states_list') : _states_list'[i] = _states_list[i]
              /\ [pc |-> arch_pc', r0 |-> r0'] = _states_list[Len(_states_list)]
      ]_vars

\* C19 witness: one step from the entry, then other commands, among them a run
\* that hit a breakpoint, then the one reverse step, which has returned to the
\* state at the entry.
C19_Witness ==
    /\ rr
    /\ state = "Stopped"
    /\ lastcmd = Line("backward", <<>>)
    /\ nfwd = 1
    /\ nback = 1
    /\ ~scen.ok
    /\ \E i \in Calls(log, "restore") : log[i].a = entry_point
    /\ arch_pc = entry_point
    /\ r0 = 0
    /\ \E h \in hooks : heap[h].hitted /\ heap[h].addr = entry_point + 4 * InstSize

----------------------------------------------------------------------------
(* Table entries and their hooks *)

\* C20: every breakpoint in the table is an object made for the address it is
\* filed under and has its own hook installed; and a hook is released only by
\* a step that takes the entry of the hook's address out of the table.
C20_TableEntriesHooked ==
    /\ [](\A e \in bp_list :
             /\ heap[e.bp].made
             /\ heap[e.bp].addr = e.key
             /\ e.bp \in hooks)
    /\ [][ \A h \in hooks \ hooks' :
             /\ dict_has(bp_list, heap[h].addr)
             /\ ~dict_has(bp_list', heap[h].addr) ]_vars

\* C20 witness: a delete has released the hook of one breakpoint while another
\* breakpoint stays in the table with its hook.
C20_Witness ==
    /\ state = "Stopped"
    /\ lastcmd.cmd = "shell"
    /\ Calls(log, "hook_remove") # {}
    /\ \E h \in 1..MaxHooks : heap[h].made /\ h \notin hooks
    /\ \E e \in bp_list : e.bp \in hooks

====
